---- MODULE Spec2Model ----
(***************************************************************************)
(* A model of currencyapp.py, a Streamlit demo that "verifies" a bank note *)
(* from a photo.  Streamlit reruns the whole script after every widget     *)
(* interaction: the variables below are the widget values the session      *)
(* keeps between runs and what the last run of the script rendered.        *)
(*                                                                         *)
(* Numbers.  Probabilities are Python floats in the source.  Here a        *)
(* probability p is the integer p * Scale, with Scale = 320000 chosen so   *)
(* that brightness/128, edge_mean/50, the factor 0.15 and the constants    *)
(* 0.55, 0.02, 0.98 are exact for integer statistics.  Text is a sequence  *)
(* of pieces (strings) whose concatenation is the Python string; strings   *)
(* the code inspects character by character are sequences of characters.   *)
(***************************************************************************)
EXTENDS Integers, Sequences, FiniteSets

VARIABLES
    CURRENCY_DB,    \* the module-level catalog dict (lines 16-41)
    page,           \* sidebar radio "Go to"
    uploaded,       \* st.camera_input: <<>> (None) or <<file>>
    uploaded_fallback, \* st.file_uploader of the Verify page: <<>> or <<file>>
    currency_code,  \* from the "Currency" selectbox
    denom,          \* from the "Denomination" selectbox
    qr_input,       \* text area of the QR page (characters)
    theme_choice,   \* sidebar selectbox "Theme"
    note_id,        \* text input "Optional note serial / tag" of the Verify page
    file_qr,        \* uploader of the QR page: <<>> or <<file>>
    clicked,        \* the interaction that asked for the next run of the script
    outcome,        \* what the last run of the script ended with
    sim,            \* <<>> or <<the dict simulated_analysis returned>>
    explanation,    \* <<>> or <<the text generate_ai_explanation returned>>
    draws,          \* <<>> or <<the noise and verdict draws of the last analysis>>
    qr_ok,          \* <<>> or <<ok>> of the last QR check
    preview,        \* what the "Upload info" column of the Verify page showed
    rows            \* the rows the Database page listed

\* img_file = uploaded or uploaded_fallback: the camera's photo if there is one
img_file == IF uploaded # <<>> THEN uploaded ELSE uploaded_fallback

vars == <<CURRENCY_DB, page, uploaded, uploaded_fallback, currency_code, denom, qr_input, file_qr,
          theme_choice, note_id, clicked, outcome, sim, explanation, draws, qr_ok, preview, rows>>

-----------------------------------------------------------------------------
(* Bounds of the model: how finely the random draws are sampled.           *)

\* random.uniform(-0.12, 0.12) is sampled at NoiseSteps + 1 evenly spaced points
NoiseSteps == 1

\* random.random() of the verdict is sampled at i / VerdictSteps, and just below 1
VerdictSteps == 2

-----------------------------------------------------------------------------
(* Fixed point and small helpers.                                          *)

Scale == 128 * 50 * 50

Min(a, b) == IF a < b THEN a ELSE b

Max(a, b) == IF a > b THEN a ELSE b

Range(s) == {s[i] : i \in 1..Len(s)}

\* a Python dict: its keys in insertion order and the value at each key
Dict(keys, at) == [keys |-> keys, at |-> at]

EmptyDict == Dict(<<>>, [k \in {} |-> <<>>])

\* dict.get(key, default)
Get(d, key, default) == IF key \in Range(d.keys) THEN d.at[key] ELSE default

-----------------------------------------------------------------------------
(* The catalog.                                                            *)

InitialCatalog ==
    Dict(<<"INR", "USD", "EUR">>,
      [INR |-> Dict(<<"name", "denominations">>,
          [name |-> "Indian Rupee (INR)",
           denominations |-> Dict(<<"10", "50", "2000">>,
             [d \in {"10", "50", "2000"} |->
                CASE d = "10" -> <<"Watermark", "Security thread", "Intaglio print", "Latent image">>
                  [] d = "50" -> <<"Watermark", "Security thread", "Optically variable ink", "Microprint">>
                  [] d = "2000" -> <<"Watermark", "Security thread", "See-through register", "Hologram">>])]),
       USD |-> Dict(<<"name", "denominations">>,
          [name |-> "US Dollar (USD)",
           denominations |-> Dict(<<"1", "20", "100">>,
             [d \in {"1", "20", "100"} |->
                CASE d = "1" -> <<"Portrait watermark", "Raised printing", "Microprinting">>
                  [] d = "20" -> <<"Security thread", "Color-shifting ink", "Portrait watermark">>
                  [] d = "100" -> <<"3D Security ribbon", "Color-shifting bell", "Large portrait watermark">>])]),
       EUR |-> Dict(<<"name", "denominations">>,
          [name |-> "Euro (EUR)",
           denominations |-> Dict(<<"5", "50", "200">>,
             [d \in {"5", "50", "200"} |->
                CASE d = "5" -> <<"Hologram", "Watermark", "Raised print">>
                  [] d = "50" -> <<"Security thread", "Hologram", "See-through number">>
                  [] d = "200" -> <<"Watermark", "Security thread", "EUR hologram">>])])])

-----------------------------------------------------------------------------
(* Images.  An uploaded file is its size in bytes, whether Image.open     *)
(* identifies it, and the image Image.open returns.  An image is whether   *)
(* its pixel data loads and, if so, the statistics PIL computes from the   *)
(* 300x300 grayscale copy.                                                 *)

Picture(loads, brightness, contrast, edge_mean) ==
    [loads |-> loads, brightness |-> brightness, contrast |-> contrast,
     edge_mean |-> edge_mean]

Upload(size, identifiable, image) ==
    [size |-> size, identifiable |-> identifiable, image |-> image]

\* the opened images the analysis is run on
Images ==
    { Picture(TRUE, 128, 70, 25),      \* brightness 128 and edge_mean 25: score 1.5
      Picture(TRUE, 210, 60, 100),     \* bright and full of edges
      Picture(FALSE, 128, 40, 25) }    \* a valid header on truncated pixel data

\* the photos the camera widget delivers
Photos == { Upload(2048, TRUE, Picture(TRUE, 210, 60, 100)) }

\* the files a user submits in an uploader: an image, a truncated image, and
\* bytes that are no image
Files ==
    { Upload(1280, TRUE, Picture(TRUE, 128, 70, 25)),
      Upload(1280, TRUE, Picture(FALSE, 128, 40, 25)),
      Upload(512, FALSE, Picture(FALSE, 0, 0, 0)) }

\* image_stats_summary: the try block, or the except branch when PIL raises
image_stats_summary(img) ==
    IF img.loads
      THEN [brightness |-> img.brightness, contrast |-> img.contrast,
            edge_mean |-> img.edge_mean]
      ELSE [brightness |-> 0, contrast |-> 0, edge_mean |-> 0]

-----------------------------------------------------------------------------
(* simulated_analysis.                                                     *)

\* faulty variant: contrast taken for the edge statistic
ScoreFromContrast(stats) ==
    (Scale \div 128) * stats.brightness + (Scale \div 50) * stats.contrast

\* score = brightness / 128.0 + edge_mean / 50.0, times Scale
Score(stats) ==
    (Scale \div 128) * stats.brightness + (Scale \div 50) * stats.edge_mean

base_prob_real == (55 * Scale) \div 100

\* faulty variant: the upper clamp lost
ProbRealNoUpperClamp(stats, noise) ==
    Max(base_prob_real + ((Score(stats) - Scale) * 15) \div 100 + noise,
        (2 * Scale) \div 100)

\* min(max(base_prob_real + (score - 1.0) * 0.15 + noise, 0.02), 0.98)
ProbReal(stats, noise) ==
    Min(Max(base_prob_real + ((Score(stats) - Scale) * 15) \div 100 + noise,
            (2 * Scale) \div 100),
        (98 * Scale) \div 100)

\* faulty variant: the verdict read off the probability, no draw
IsRealSimByThreshold(verdict_draw, prob_real) == 2 * prob_real > Scale

\* random.random() < prob_real
IsRealSim(verdict_draw, prob_real) == verdict_draw < prob_real

\* faulty variant: an unknown code falls back to the first currency
ExpectedFirstCurrency(db, code, d) ==
    Get(Get(Get(db, code, db.at[db.keys[1]]), "denominations", EmptyDict), d, <<>>)

\* CURRENCY_DB.get(currency_code, {}).get("denominations", {}).get(denom, [])
Expected(db, code, d) ==
    Get(Get(Get(db, code, EmptyDict), "denominations", EmptyDict), d, <<>>)

\* one pass of the loop body: random.random() < 0.8, or < 0.25 (draws in percent)
Present(is_real_sim, draw) == IF is_real_sim THEN draw < 80 ELSE draw < 25

\* faulty variant: the else lost, f appended to missing even when present
LoopBodyNoElse(observed, missing, f, present) ==
    [observed |-> IF present THEN Append(observed, f) ELSE observed,
     missing |-> Append(missing, f)]

\* the loop body after the draw: observed.append(f) or missing.append(f)
LoopBody(observed, missing, f, present) ==
    IF present
      THEN [observed |-> Append(observed, f), missing |-> missing]
      ELSE [observed |-> observed, missing |-> Append(missing, f)]

\* the loop over expected, from feature i on
RECURSIVE FeatureLoop(_, _, _, _, _, _)
FeatureLoop(expected, i, is_real_sim, feature_draws, observed, missing) ==
    IF i > Len(expected)
      THEN [observed |-> observed, missing |-> missing]
      ELSE LET lists == LoopBody(observed, missing, expected[i],
                                 Present(is_real_sim, feature_draws[i]))
           IN  FeatureLoop(expected, i + 1, is_real_sim, feature_draws,
                           lists.observed, lists.missing)

SuspiciousVocabulary ==
    <<"Uneven edge alignment", "Blurred microprint", "Odd color tint",
      "Inconsistent portrait size", "Missing watermark shadow">>

\* random.sample(vocabulary, k): the k positions it picked, in the order picked
SuspiciousReasons(is_real_sim, picks) ==
    IF is_real_sim THEN <<>>
    ELSE [i \in 1..Len(picks) |-> SuspiciousVocabulary[picks[i]]]

\* faulty variant: random.choices, which picks with replacement
SamplesWithReplacement ==
    UNION { [1..k -> 1..Len(SuspiciousVocabulary)] : k \in 1..2 }

\* what random.sample can return for k in 1..2: k distinct positions
Samples ==
    { s \in UNION { [1..k -> 1..Len(SuspiciousVocabulary)] : k \in 1..2 } :
        \A i, j \in 1..Len(s) : i # j => s[i] # s[j] }

\* rnd holds the draws in the order the code consumes them
simulated_analysis(img, code, d, db, rnd) ==
    LET stats == image_stats_summary(img)
        prob_real == ProbReal(stats, rnd.noise)
        is_real_sim == IsRealSim(rnd.verdict, prob_real)
        expected == Expected(db, code, d)
        parts == FeatureLoop(expected, 1, is_real_sim, rnd.features, <<>>, <<>>)
    IN  [simulated_real |-> is_real_sim,
         probability_real |-> prob_real,
         expected_features |-> expected,
         observed_features |-> parts.observed,
         missing_features |-> parts.missing,
         suspicious_reasons |-> SuspiciousReasons(is_real_sim, rnd.picks),
         stats |-> stats]

\* faulty variant: the missing features removed from expected in place
ExpectedFilteredInPlace(expected, observed, missing) == observed

\* the list object expected names, after the loop: the loop only reads it
ExpectedAfterLoop(expected, observed, missing) == expected

\* the catalog after a call: expected is the catalog's own list when the pair is
\* known, and the fresh default [] of the last get otherwise
CatalogAfterAnalysis(db, code, d, result) ==
    IF code \in Range(db.keys) /\ d \in Range(db.at[code].at.denominations.keys)
      THEN [db EXCEPT !.at[code].at.denominations.at[d] =
              ExpectedAfterLoop(@, result.observed_features, result.missing_features)]
      ELSE db

\* the draws a call can consume
NoiseDraws ==
    { ((((24 * Scale) \div 100) * j) \div NoiseSteps) - ((12 * Scale) \div 100) :
        j \in 0..NoiseSteps }

VerdictDraws ==
    { (i * Scale) \div VerdictSteps : i \in 0..(VerdictSteps - 1) } \cup { Scale - 1 }

FeatureDraws == {10, 50, 90}

-----------------------------------------------------------------------------
(* generate_ai_explanation.                                                *)

\* sep.join(items) for items that are sequences of pieces
RECURSIVE JoinFrom(_, _, _)
JoinFrom(sep, items, i) ==
    IF i > Len(items) THEN <<>>
    ELSE IF i = Len(items) THEN items[i]
    ELSE items[i] \o <<sep>> \o JoinFrom(sep, items, i + 1)

Join(sep, items) == JoinFrom(sep, items, 1)

\* a list of strings as a list of one-piece texts
Pieces(list) == [i \in 1..Len(list) |-> <<list[i]>>]

\* label + sep.join(list) + "."
Detail(label, sep, list) == <<label>> \o Join(sep, Pieces(list)) \o <<".">>

\* faulty variant: int(x), which truncates
Format0fTruncating(num, den) == {num \div den}

\* f"{x:.0f}" for the float nearest num / den: the integer nearest to it.  When
\* num / den lies exactly halfway between two integers the float product is off by
\* a rounding error of either sign (0.805 gives 19.499999999999996 for
\* (1 - p) * 100), so either neighbour can be printed.
Format0f(num, den) ==
    LET q == num \div den
        r == num % den
    IN  IF 2 * r < den THEN {q}
        ELSE IF 2 * r > den THEN {q + 1}
        ELSE {q, q + 1}

ToneReal ==
    <<<<"The scanned note shows multiple expected security features. ">>,
      <<"Overall the image matches reference patterns used for genuine notes. ">>>>

ToneFake ==
    <<<<"The scanned note shows several inconsistencies with the expected reference. ">>,
      <<"These discrepancies suggest the note could be a forgery or is damaged/poorly scanned. ">>>>

\* (the source's em dash, U+2014, is written -- in the strings of this module)
Closing ==
    " This is an educational simulation -- for a definitive determination consult bank note experts or use certified bank/forensic equipment."

\* the details list of the branch taken: one entry per non-empty list
DetailsReal(sim_result) ==
    (IF sim_result.observed_features # <<>>
       THEN <<Detail("Observed features: ", ", ", sim_result.observed_features)>>
       ELSE <<>>)
    \o (IF sim_result.missing_features # <<>>
       THEN <<Detail("Minor features not clearly visible: ", ", ", sim_result.missing_features)>>
       ELSE <<>>)
    \o (IF sim_result.suspicious_reasons # <<>>
       THEN <<Detail("Additional notes: ", "; ", sim_result.suspicious_reasons)>>
       ELSE <<>>)

\* faulty variant: the missing-features sentence written even for an empty list
DetailsFakeUnguarded(sim_result) ==
    <<Detail("Missing or unclear features: ", ", ", sim_result.missing_features)>>
    \o (IF sim_result.suspicious_reasons # <<>>
       THEN <<Detail("Suspicious signs: ", "; ", sim_result.suspicious_reasons)>>
       ELSE <<>>)

DetailsFake(sim_result) ==
    (IF sim_result.missing_features # <<>>
       THEN <<Detail("Missing or unclear features: ", ", ", sim_result.missing_features)>>
       ELSE <<>>)
    \o (IF sim_result.suspicious_reasons # <<>>
       THEN <<Detail("Suspicious signs: ", "; ", sim_result.suspicious_reasons)>>
       ELSE <<>>)

\* the text is header + "\n\n" + p + confidence + "\n\n" + closing, where
\* confidence is label + percent + "%)"
Text(header, p, label, percent, closing) ==
    [header |-> header, p |-> p,
     confidence |-> [label |-> label, percent |-> percent, suffix |-> "%)"],
     closing |-> closing]

\* the texts the function can return: one, or two when the percentage is a tie
generate_ai_explanation(sim_result, currency_str, d) ==
    LET header == <<"Interpretation for ", currency_str, " -- ", d, " (simulated):">>
    IN  IF sim_result.simulated_real
          THEN { Text(header, Join(" ", ToneReal \o DetailsReal(sim_result)),
                      " (Simulated confidence: ", pct, Closing) :
                   pct \in Format0f(sim_result.probability_real * 100, Scale) }
          ELSE { Text(header, Join(" ", ToneFake \o DetailsFake(sim_result)),
                      " (Simulated confidence that note is fake: ", pct, Closing) :
                   pct \in Format0f((Scale - sim_result.probability_real) * 100, Scale) }

-----------------------------------------------------------------------------
(* pretty_bytes and the QR check.  These strings are sequences of          *)
(* characters.                                                             *)

Digit(k) == <<"0", "1", "2", "3", "4", "5", "6", "7", "8", "9">>[k + 1]

RECURSIVE Digits(_)
Digits(n) == IF n < 10 THEN <<Digit(n)>> ELSE Append(Digits(n \div 10), Digit(n % 10))

\* round to nearest, ties to even: exact here, b / 1024.0 being exact in binary
RoundHalfEven(num, den) ==
    LET q == num \div den
        r == num % den
    IN  IF 2 * r > den \/ (2 * r = den /\ q % 2 = 1) THEN q + 1 ELSE q

\* f"{b:3.1f}" for b = num / den
Format1f(num, den) ==
    LET tenths == RoundHalfEven(10 * num, den)
    IN  Digits(tenths \div 10) \o <<".", Digit(tenths % 10)>>

Units == << <<"B">>, <<"K", "B">>, <<"M", "B">>, <<"G", "B">> >>

\* the loop over the units, b = num / den on entry to unit u
RECURSIVE PrettyFrom(_, _, _)
PrettyFrom(num, den, u) ==
    IF u > Len(Units) THEN Format1f(num, den) \o <<"T", "B">>
    ELSE IF num \div den < 1024 THEN Format1f(num, den) \o Units[u]
    ELSE PrettyFrom(num, den * 1024, u + 1)

pretty_bytes(b) == PrettyFrom(b, 1, 1)

\* the characters of the catalog's codes and names
Chars ==
    [s \in {"INR", "USD", "EUR", "Indian Rupee (INR)", "US Dollar (USD)", "Euro (EUR)"} |->
       CASE s = "INR" -> <<"I", "N", "R">>
         [] s = "USD" -> <<"U", "S", "D">>
         [] s = "EUR" -> <<"E", "U", "R">>
         [] s = "Indian Rupee (INR)" -> <<"I", "n", "d", "i", "a", "n", " ", "R", "u", "p", "e", "e", " ", "(", "I", "N", "R", ")">>
         [] s = "US Dollar (USD)" -> <<"U", "S", " ", "D", "o", "l", "l", "a", "r", " ", "(", "U", "S", "D", ")">>
         [] s = "Euro (EUR)" -> <<"E", "u", "r", "o", " ", "(", "E", "U", "R", ")">>]

\* the characters str.strip() and str.split() take for whitespace: those
\* str.isspace() accepts.  A character a string of this module cannot hold is
\* written as its code point.
Whitespace ==
    { " ", "\t", "\n", "\r", "\f", "U+000B", "U+001C", "U+001D", "U+001E", "U+001F",
      "U+0085", "U+00A0", "U+1680", "U+2000", "U+2001", "U+2002", "U+2003",
      "U+2004", "U+2005", "U+2006", "U+2007", "U+2008", "U+2009", "U+200A",
      "U+2028", "U+2029", "U+202F", "U+205F", "U+3000" }

RECURSIVE LStrip(_)
LStrip(s) == IF s # <<>> /\ Head(s) \in Whitespace THEN LStrip(Tail(s)) ELSE s

RECURSIVE RStrip(_)
RStrip(s) ==
    IF s # <<>> /\ s[Len(s)] \in Whitespace THEN RStrip(SubSeq(s, 1, Len(s) - 1)) ELSE s

\* str.strip()
Strip(s) == RStrip(LStrip(s))

\* the characters of s up to its first whitespace
RECURSIVE Word(_)
Word(s) ==
    IF s = <<>> \/ Head(s) \in Whitespace THEN <<>> ELSE <<Head(s)>> \o Word(Tail(s))

\* s.split()[0]
FirstWord(s) == Word(LStrip(s))

\* needle in hay
IsIn(needle, hay) ==
    \E i \in 0..(Len(hay) - Len(needle)) : SubSeq(hay, i + 1, i + Len(needle)) = needle

SimulatedDecodePrefix ==
    <<"(", "s", "i", "m", "u", "l", "a", "t", "e", "d", "-", "d", "e", "c", "o", "d", "e", "d", "-", "f", "r", "o", "m", "-", "i", "m", "a", "g", "e", " ", "s", "i", "z", "e", "=">>

\* content: the stripped text, else the pretended decoding of the file, else None
QRContent(text, file) ==
    IF Strip(text) # <<>> THEN <<Strip(text)>>
    ELSE IF file # <<>>
      THEN <<SimulatedDecodePrefix \o pretty_bytes(file[1].size) \o <<")">>>>
    ELSE <<>>

\* ok after the loop over CURRENCY_DB.keys()
QRMatches(db, content) ==
    \E code \in Range(db.keys) :
        \/ IsIn(Chars[code], content)
        \/ IsIn(FirstWord(Chars[db.at[code].at.name]), content)

\* the texts typed into the QR page
QRTexts ==
    { <<>>, <<" ", "\r", "\n">>, <<"U+00A0">>,
      <<" ", "I", "N", "R", " ", "2", "0", "0", "\r", "\n">>,
      <<"E", "u", "r", "o", "s">>, <<"u", "s", "d">> }

-----------------------------------------------------------------------------
(* The Database page.                                                      *)

\* the rows of one currency, from its denomination i on
RECURSIVE DenomRows(_, _, _, _)
DenomRows(code, meta, denoms, i) ==
    IF i > Len(denoms.keys) THEN <<>>
    ELSE <<[Code |-> code, Name |-> meta.name, Denomination |-> denoms.keys[i],
            ExpectedFeatures |-> Join(", ", Pieces(denoms.at[denoms.keys[i]]))]>>
         \o DenomRows(code, meta, denoms, i + 1)

\* rows after the two nested loops, from currency i on
RECURSIVE DatabaseRows(_, _)
DatabaseRows(db, i) ==
    IF i > Len(db.keys) THEN <<>>
    ELSE DenomRows(db.keys[i], db.at[db.keys[i]].at,
                   db.at[db.keys[i]].at.denominations, 1)
         \o DatabaseRows(db, i + 1)

-----------------------------------------------------------------------------
(* The session.  A widget interaction stores the widget's value, drops     *)
(* what the previous run rendered and asks for a run of the script; the    *)
(* run then executes the script top to bottom for the page shown.  A       *)
(* widget the run does not reach loses its value, as Streamlit has it.     *)

Pages == {"Home", "Verify Note", "QR Verify", "Database", "About / Deploy"}

\* the options of the "Theme" selectbox, the first one its default
Themes == <<"Professional (dark header)", "Light">>

\* the texts typed into the note_id input
NoteIds == {"", "ABC123456"}

\* the first option of a selectbox is its default
DefaultCurrency(db) == db.keys[1]

DefaultDenom(db, code) == db.at[code].at.denominations.keys[1]

Init ==
    /\ CURRENCY_DB = InitialCatalog
    /\ page = "Home"
    /\ uploaded = <<>>
    /\ uploaded_fallback = <<>>
    /\ currency_code = DefaultCurrency(InitialCatalog)
    /\ denom = DefaultDenom(InitialCatalog, DefaultCurrency(InitialCatalog))
    /\ qr_input = <<>>
    /\ file_qr = <<>>
    /\ theme_choice = Themes[1]
    /\ note_id = ""
    /\ clicked = "none"
    /\ outcome = "rendered"
    /\ sim = <<>>
    /\ explanation = <<>>
    /\ draws = <<>>
    /\ qr_ok = <<>>
    /\ preview = "none"
    /\ rows = <<>>

\* the elements of the previous run are dropped when a new run is asked for
Rerun(widget) ==
    /\ clicked' = widget
    /\ outcome' = "running"
    /\ sim' = <<>>
    /\ explanation' = <<>>
    /\ draws' = <<>>
    /\ qr_ok' = <<>>
    /\ preview' = "none"
    /\ rows' = <<>>
    /\ UNCHANGED CURRENCY_DB

Navigate(p) ==
    /\ clicked = "none"
    /\ p # page
    /\ page' = p
    /\ uploaded' = <<>>
    /\ uploaded_fallback' = <<>>
    /\ currency_code' = DefaultCurrency(CURRENCY_DB)
    /\ denom' = DefaultDenom(CURRENCY_DB, DefaultCurrency(CURRENCY_DB))
    /\ qr_input' = <<>>
    /\ file_qr' = <<>>
    /\ note_id' = ""
    /\ UNCHANGED theme_choice
    /\ Rerun("page")

\* the "Theme" selectbox of the sidebar, shown on every page
SelectTheme(t) ==
    /\ clicked = "none"
    /\ t # theme_choice
    /\ theme_choice' = t
    /\ UNCHANGED <<page, uploaded, uploaded_fallback, currency_code, denom, qr_input, file_qr, note_id>>
    /\ Rerun("theme_choice")

\* st.camera_input "Use your device camera": a photo is taken
TakePhoto(f) ==
    /\ clicked = "none"
    /\ page = "Verify Note"
    /\ uploaded # <<f>>
    /\ uploaded' = <<f>>
    /\ UNCHANGED <<page, uploaded_fallback, currency_code, denom, qr_input, file_qr,
                   theme_choice, note_id>>
    /\ Rerun("uploaded")

\* the photo is cleared
ClearPhoto ==
    /\ clicked = "none"
    /\ page = "Verify Note"
    /\ uploaded # <<>>
    /\ uploaded' = <<>>
    /\ UNCHANGED <<page, uploaded_fallback, currency_code, denom, qr_input, file_qr,
                   theme_choice, note_id>>
    /\ Rerun("uploaded")

\* st.file_uploader "Or upload an image": a file is submitted
SubmitImage(f) ==
    /\ clicked = "none"
    /\ page = "Verify Note"
    /\ uploaded_fallback # <<f>>
    /\ uploaded_fallback' = <<f>>
    /\ UNCHANGED <<page, uploaded, currency_code, denom, qr_input, file_qr,
                   theme_choice, note_id>>
    /\ Rerun("uploaded_fallback")

\* the uploader's file is removed
RemoveImage ==
    /\ clicked = "none"
    /\ page = "Verify Note"
    /\ uploaded_fallback # <<>>
    /\ uploaded_fallback' = <<>>
    /\ UNCHANGED <<page, uploaded, currency_code, denom, qr_input, file_qr,
                   theme_choice, note_id>>
    /\ Rerun("uploaded_fallback")

\* the denomination selectbox is rebuilt from the new currency's keys
SelectCurrency(code) ==
    /\ clicked = "none"
    /\ page = "Verify Note"
    /\ code # currency_code
    /\ currency_code' = code
    /\ denom' = DefaultDenom(CURRENCY_DB, code)
    /\ UNCHANGED <<page, uploaded, uploaded_fallback, qr_input, file_qr, theme_choice, note_id>>
    /\ Rerun("currency")

SelectDenom(d) ==
    /\ clicked = "none"
    /\ page = "Verify Note"
    /\ d # denom
    /\ denom' = d
    /\ UNCHANGED <<page, uploaded, uploaded_fallback, currency_code, qr_input, file_qr, theme_choice, note_id>>
    /\ Rerun("denom")

\* st.text_input "Optional note serial / tag (for your records)"
TypeNoteId(text) ==
    /\ clicked = "none"
    /\ page = "Verify Note"
    /\ text # note_id
    /\ note_id' = text
    /\ UNCHANGED <<page, uploaded, uploaded_fallback, currency_code, denom, qr_input, file_qr, theme_choice>>
    /\ Rerun("note_id")

ClickRun ==
    /\ clicked = "none"
    /\ page = "Verify Note"
    /\ UNCHANGED <<page, uploaded, uploaded_fallback, currency_code, denom, qr_input, file_qr,
                   theme_choice, note_id>>
    /\ Rerun("run_btn")

TypeQR(text) ==
    /\ clicked = "none"
    /\ page = "QR Verify"
    /\ text # qr_input
    /\ qr_input' = text
    /\ UNCHANGED <<page, uploaded, uploaded_fallback, currency_code, denom, file_qr, theme_choice, note_id>>
    /\ Rerun("qr_input")

SubmitQRImage(f) ==
    /\ clicked = "none"
    /\ page = "QR Verify"
    /\ file_qr # <<f>>
    /\ file_qr' = <<f>>
    /\ UNCHANGED <<page, uploaded, uploaded_fallback, currency_code, denom, qr_input, theme_choice, note_id>>
    /\ Rerun("file_qr")

RemoveQRImage ==
    /\ clicked = "none"
    /\ page = "QR Verify"
    /\ file_qr # <<>>
    /\ file_qr' = <<>>
    /\ UNCHANGED <<page, uploaded, uploaded_fallback, currency_code, denom, qr_input, theme_choice, note_id>>
    /\ Rerun("file_qr")

ClickVerifyQR ==
    /\ clicked = "none"
    /\ page = "QR Verify"
    /\ UNCHANGED <<page, uploaded, uploaded_fallback, currency_code, denom, qr_input, file_qr,
                   theme_choice, note_id>>
    /\ Rerun("verify_btn")

\* the "Upload info" column.  Image.open raises on bytes it cannot identify;
\* on truncated pixel data it returns, and whether st.image then raises is up to
\* the library's decoding of the image, so either branch of the try may show.
Preview(file) ==
    IF file = <<>> THEN {"No image provided yet"}
    ELSE IF ~file[1].identifiable THEN {"Could not preview image."}
    ELSE IF file[1].image.loads THEN {"Preview"}
    ELSE {"Preview", "Could not preview image."}

\* the button "Generate GitHub-ready zip (simulated)" of the About page
ClickGenerateZip ==
    /\ clicked = "none"
    /\ page = "About / Deploy"
    /\ UNCHANGED <<page, uploaded, uploaded_fallback, currency_code, denom, qr_input, file_qr,
                   theme_choice, note_id>>
    /\ Rerun("zip_btn")

Widgets == <<page, uploaded, uploaded_fallback, currency_code, denom, qr_input, file_qr,
             theme_choice, note_id>>

\* the draws one call of simulated_analysis consumes, and the call
Analyse(img, code, d) ==
    \E noise \in NoiseDraws, verdict \in VerdictDraws :
      LET expected == Expected(CURRENCY_DB, code, d)
          is_real_sim == IsRealSim(verdict, ProbReal(image_stats_summary(img), noise))
      IN  \E features \in [1..Len(expected) -> FeatureDraws],
             picks \in (IF is_real_sim THEN {<<>>} ELSE Samples) :
            LET rnd == [noise |-> noise, verdict |-> verdict,
                        features |-> features, picks |-> picks]
                result == simulated_analysis(img, code, d, CURRENCY_DB, rnd)
            IN  /\ sim' = <<result>>
                /\ draws' = <<[noise |-> noise, verdict |-> verdict]>>
                /\ CURRENCY_DB' = CatalogAfterAnalysis(CURRENCY_DB, code, d, result)

\* Home: static text
RunHome ==
    /\ page = "Home"
    /\ outcome' = "rendered"
    /\ UNCHANGED <<CURRENCY_DB, sim, explanation, draws, qr_ok, preview, rows>>

\* About / Deploy, its button not pressed: static text
RunAboutIdle ==
    /\ page = "About / Deploy"
    /\ clicked # "zip_btn"
    /\ outcome' = "rendered"
    /\ UNCHANGED <<CURRENCY_DB, sim, explanation, draws, qr_ok, preview, rows>>

\* About / Deploy, its button pressed: the st.info under it
RunAboutZip ==
    /\ page = "About / Deploy"
    /\ clicked = "zip_btn"
    /\ outcome' = "I can provide a zipped project structure in a follow-up if you want. (Simulated prompt button)"
    /\ UNCHANGED <<CURRENCY_DB, sim, explanation, draws, qr_ok, preview, rows>>

\* Verify Note, run_btn not pressed
RunVerifyIdle ==
    /\ page = "Verify Note"
    /\ clicked # "run_btn"
    /\ preview' \in Preview(img_file)
    /\ outcome' = "rendered"
    /\ UNCHANGED <<CURRENCY_DB, sim, explanation, draws, qr_ok, rows>>

\* run_btn without an image: "Please take or upload an image first."
RunVerifyNoImage ==
    /\ page = "Verify Note"
    /\ clicked = "run_btn"
    /\ img_file = <<>>
    /\ preview' \in Preview(img_file)
    /\ outcome' = "Please take or upload an image first."
    /\ UNCHANGED <<CURRENCY_DB, sim, explanation, draws, qr_ok, rows>>

\* run_btn, and Image.open raises on line 275, outside any try: the run ends there
RunVerifyOpenRaises ==
    /\ page = "Verify Note"
    /\ clicked = "run_btn"
    /\ img_file # <<>>
    /\ ~img_file[1].identifiable
    /\ preview' \in Preview(img_file)
    /\ outcome' = "UnidentifiedImageError"
    /\ UNCHANGED <<CURRENCY_DB, sim, explanation, draws, qr_ok, rows>>

\* run_btn with an image Image.open returns: analysis, explanation, results
RunVerifyResults ==
    /\ page = "Verify Note"
    /\ clicked = "run_btn"
    /\ img_file # <<>>
    /\ img_file[1].identifiable
    /\ preview' \in Preview(img_file)
    /\ Analyse(img_file[1].image, currency_code, denom)
    /\ \E text \in generate_ai_explanation(sim'[1],
                     CURRENCY_DB'.at[currency_code].at.name, denom) :
          explanation' = <<text>>
    /\ outcome' = "Results"
    /\ UNCHANGED <<qr_ok, rows>>

\* QR Verify, verify_btn not pressed
RunQRIdle ==
    /\ page = "QR Verify"
    /\ clicked # "verify_btn"
    /\ outcome' = "rendered"
    /\ UNCHANGED <<CURRENCY_DB, sim, explanation, draws, qr_ok, preview, rows>>

\* verify_btn with neither text nor file: "Provide QR text or image first."
RunQRNoContent ==
    /\ page = "QR Verify"
    /\ clicked = "verify_btn"
    /\ QRContent(qr_input, file_qr) = <<>>
    /\ outcome' = "Provide QR text or image first."
    /\ UNCHANGED <<CURRENCY_DB, sim, explanation, draws, qr_ok, preview, rows>>

RunQRCheck ==
    /\ page = "QR Verify"
    /\ clicked = "verify_btn"
    /\ QRContent(qr_input, file_qr) # <<>>
    /\ qr_ok' = <<QRMatches(CURRENCY_DB, QRContent(qr_input, file_qr)[1])>>
    /\ outcome' = "Decoded QR content"
    /\ UNCHANGED <<CURRENCY_DB, sim, explanation, draws, preview, rows>>

RunDatabase ==
    /\ page = "Database"
    /\ rows' = DatabaseRows(CURRENCY_DB, 1)
    /\ outcome' = "rendered"
    /\ UNCHANGED <<CURRENCY_DB, sim, explanation, draws, qr_ok, preview>>

\* one run of the script, for the page shown
ScriptRun ==
    /\ clicked \notin {"none", "call"}
    /\ clicked' = "none"
    /\ UNCHANGED Widgets
    /\ \/ RunHome
       \/ RunAboutIdle
       \/ RunAboutZip
       \/ RunVerifyIdle
       \/ RunVerifyNoImage
       \/ RunVerifyOpenRaises
       \/ RunVerifyResults
       \/ RunQRIdle
       \/ RunQRNoContent
       \/ RunQRCheck
       \/ RunDatabase

Next ==
    \/ \E p \in Pages : Navigate(p)
    \/ \E t \in Range(Themes) : SelectTheme(t)
    \/ \E f \in Photos : TakePhoto(f)
    \/ ClearPhoto
    \/ \E f \in Files : SubmitImage(f)
    \/ RemoveImage
    \/ \E code \in Range(CURRENCY_DB.keys) : SelectCurrency(code)
    \/ \E d \in Range(CURRENCY_DB.at[currency_code].at.denominations.keys) : SelectDenom(d)
    \/ \E text \in NoteIds : TypeNoteId(text)
    \/ ClickRun
    \/ \E text \in QRTexts : TypeQR(text)
    \/ \E f \in Files : SubmitQRImage(f)
    \/ RemoveQRImage
    \/ ClickVerifyQR
    \/ ClickGenerateZip
    \/ ScriptRun

Spec == Init /\ [][Next]_vars

-----------------------------------------------------------------------------
(* The functions called directly, as a unit test calls them: any opened    *)
(* image, any currency code and denomination label, known or not.          *)

UnknownCode == "XYZ"

UnknownDenom == "7"

CallCodes == Range(InitialCatalog.keys) \cup {UnknownCode}

CallDenoms ==
    UNION { Range(InitialCatalog.at[c].at.denominations.keys) :
              c \in Range(InitialCatalog.keys) } \cup {UnknownDenom}

\* the display string a caller passes: the catalog's name, or the code itself
CurrencyStr(db, code) ==
    IF code \in Range(db.keys) THEN db.at[code].at.name ELSE code

InitCall ==
    /\ CURRENCY_DB = InitialCatalog
    /\ page = "Verify Note"
    /\ uploaded = <<>>
    /\ uploaded_fallback \in { <<Upload(1280, TRUE, im)>> : im \in Images }
    /\ currency_code \in CallCodes
    /\ denom \in CallDenoms
    /\ qr_input = <<>>
    /\ file_qr = <<>>
    /\ theme_choice = Themes[1]
    /\ note_id = ""
    /\ clicked = "call"
    /\ outcome = "running"
    /\ sim = <<>>
    /\ explanation = <<>>
    /\ draws = <<>>
    /\ qr_ok = <<>>
    /\ preview = "none"
    /\ rows = <<>>

\* sim = simulated_analysis(img, code, denom); generate_ai_explanation(sim, ...)
Call ==
    /\ clicked = "call"
    /\ clicked' = "none"
    /\ Analyse(img_file[1].image, currency_code, denom)
    /\ \E text \in generate_ai_explanation(sim'[1],
                     CurrencyStr(CURRENCY_DB', currency_code), denom) :
          explanation' = <<text>>
    /\ outcome' = "Results"
    /\ UNCHANGED <<Widgets, qr_ok, preview, rows>>

NextCall == Call

SpecCall == InitCall /\ [][NextCall]_vars

-----------------------------------------------------------------------------
(* The claims.                                                             *)

Abs(x) == IF x < 0 THEN -x ELSE x

Distinct(s) == \A i, j \in 1..Len(s) : i # j => s[i] # s[j]

\* the elements of full that are in sub, in the order of full
Restrict(full, sub) == SelectSeq(full, LAMBDA f : f \in Range(sub))

\* the catalog as the source declares it, pair by pair
DeclaredFeatures(code, d) ==
    CASE code = "INR" /\ d = "10" ->
           <<"Watermark", "Security thread", "Intaglio print", "Latent image">>
      [] code = "INR" /\ d = "50" ->
           <<"Watermark", "Security thread", "Optically variable ink", "Microprint">>
      [] code = "INR" /\ d = "2000" ->
           <<"Watermark", "Security thread", "See-through register", "Hologram">>
      [] code = "USD" /\ d = "1" ->
           <<"Portrait watermark", "Raised printing", "Microprinting">>
      [] code = "USD" /\ d = "20" ->
           <<"Security thread", "Color-shifting ink", "Portrait watermark">>
      [] code = "USD" /\ d = "100" ->
           <<"3D Security ribbon", "Color-shifting bell", "Large portrait watermark">>
      [] code = "EUR" /\ d = "5" -> <<"Hologram", "Watermark", "Raised print">>
      [] code = "EUR" /\ d = "50" -> <<"Security thread", "Hologram", "See-through number">>
      [] code = "EUR" /\ d = "200" -> <<"Watermark", "Security thread", "EUR hologram">>
      [] OTHER -> <<>>

KnownPair(code, d) ==
    \/ code = "INR" /\ d \in {"10", "50", "2000"}
    \/ code = "USD" /\ d \in {"1", "20", "100"}
    \/ code = "EUR" /\ d \in {"5", "50", "200"}

\* whether an analysis result is well formed: probability, partition, reasons
ValidResult(r) ==
    /\ 2 * Scale <= 100 * r.probability_real
    /\ 100 * r.probability_real <= 98 * Scale
    /\ Range(r.observed_features) \cup Range(r.missing_features) = Range(r.expected_features)
    /\ Range(r.observed_features) \cap Range(r.missing_features) = {}
    /\ Len(r.observed_features) + Len(r.missing_features) = Len(r.expected_features)
    /\ r.simulated_real => r.suspicious_reasons = <<>>
    /\ ~r.simulated_real => Len(r.suspicious_reasons) \in {1, 2}

\* the sum the clamp is applied to, for the result shown
Unclamped ==
    base_prob_real + ((Score(sim[1].stats) - Scale) * 15) \div 100 + draws[1].noise

\* statistics beyond what PIL returns for an 8-bit image, on both sides
ExtremeStats ==
    { [brightness |-> b, contrast |-> 0, edge_mean |-> e] :
        b \in {-640, 0, 255}, e \in {-250, 0, 255} }

\* C1: the probability_real of every analysis result lies in [0.02, 0.98],
\* whatever the image statistics and the noise draw; and whenever a run is asked
\* for, the clamp also holds for statistics that would push the unclamped sum
\* below 0.02 or above 0.98.
C1_ProbabilityWithinClamp ==
    /\ \A i \in 1..Len(sim) :
        /\ 2 * Scale <= 100 * sim[i].probability_real
        /\ 100 * sim[i].probability_real <= 98 * Scale
    /\ clicked = "run_btn" =>
         \A stats \in ExtremeStats, noise \in NoiseDraws :
            /\ 2 * Scale <= 100 * ProbReal(stats, noise)
            /\ 100 * ProbReal(stats, noise) <= 98 * Scale

\* a result whose unclamped sum exceeds 0.98 and whose probability is 0.98
C1_Witness ==
    /\ sim # <<>>
    /\ 100 * Unclamped > 98 * Scale
    /\ 100 * sim[1].probability_real = 98 * Scale

\* C2: observed_features and missing_features partition expected_features: every
\* expected feature is in exactly one of them, nothing else is in either, nothing
\* is repeated, and each keeps the catalog order.
C2_FeaturesPartitionExpected ==
    \A i \in 1..Len(sim) :
        LET r == sim[i]
        IN  /\ Range(r.observed_features) \cup Range(r.missing_features)
                 = Range(r.expected_features)
            /\ Range(r.observed_features) \cap Range(r.missing_features) = {}
            /\ Distinct(r.observed_features)
            /\ Distinct(r.missing_features)
            /\ r.observed_features = Restrict(r.expected_features, r.observed_features)
            /\ r.missing_features = Restrict(r.expected_features, r.missing_features)

\* a result for a four-feature note with two features on each side
C2_Witness ==
    /\ sim # <<>>
    /\ Len(sim[1].expected_features) = 4
    /\ Len(sim[1].observed_features) = 2
    /\ Len(sim[1].missing_features) = 2

\* C3: suspicious_reasons is empty for a real verdict; for a fake verdict it holds
\* one or two distinct entries of the five-item vocabulary.
C3_SuspiciousReasonsMatchVerdict ==
    \A i \in 1..Len(sim) :
        LET r == sim[i]
        IN  IF r.simulated_real
              THEN r.suspicious_reasons = <<>>
              ELSE /\ Len(r.suspicious_reasons) \in {1, 2}
                   /\ Distinct(r.suspicious_reasons)
                   /\ Range(r.suspicious_reasons) \subseteq
                        {"Uneven edge alignment", "Blurred microprint", "Odd color tint",
                         "Inconsistent portrait size", "Missing watermark shadow"}

\* a fake verdict with two reasons
C3_Witness ==
    /\ sim # <<>>
    /\ ~sim[1].simulated_real
    /\ Len(sim[1].suspicious_reasons) = 2

\* C4: the lookup returns the declared feature list, in its declared order, for a
\* known (code, denomination) pair and the empty list for an unknown one (unknown
\* code, or known code with a denomination it does not have); the call completes.
C4_CatalogLookup ==
    clicked = "none" =>
        /\ outcome = "Results"
        /\ sim # <<>>
        /\ sim[1].expected_features = DeclaredFeatures(currency_code, denom)
        /\ ~KnownPair(currency_code, denom) => sim[1].expected_features = <<>>

\* a completed call for a known code with another currency's denomination
C4_Witness ==
    /\ currency_code = "INR"
    /\ denom = "5"
    /\ outcome = "Results"
    /\ sim # <<>>
    /\ sim[1].expected_features = <<>>

\* the submitted file does not decode: Image.open or the pixel decoding raises
DecodeFails == img_file # <<>> /\ ~(img_file[1].identifiable /\ img_file[1].image.loads)

\* C5: when the submitted image fails to decode, a verification run still ends
\* with results: zeroed statistics, no error, and a valid analysis result.
C5_DecodeFailureStillCompletes ==
    (page = "Verify Note" /\ DecodeFails /\ outcome \notin {"running", "rendered"}) =>
        /\ outcome = "Results"
        /\ sim # <<>>
        /\ sim[1].stats = [brightness |-> 0, contrast |-> 0, edge_mean |-> 0]
        /\ ValidResult(sim[1])
        /\ explanation # <<>>

\* the part of C5 the code keeps: when Image.open succeeds and the pixel data
\* fails to load, the statistics are zeroed and the run ends with valid results
C5_LoadFailureCompletes ==
    (page = "Verify Note" /\ DecodeFails /\ img_file[1].identifiable
       /\ outcome \notin {"running", "rendered"}) =>
        /\ outcome = "Results"
        /\ sim # <<>>
        /\ sim[1].stats = [brightness |-> 0, contrast |-> 0, edge_mean |-> 0]
        /\ ValidResult(sim[1])
        /\ explanation # <<>>

\* C6: the explanation ends with the fixed disclaimer and states a confidence that
\* is an integer percentage in 0..100: the integer nearest probability_real * 100
\* for a real verdict, nearest (1 - probability_real) * 100 for a fake one.
C6_ExplanationConfidence ==
    \A i \in 1..Len(explanation) :
        LET t == explanation[i]
            r == sim[i]
            shown == IF r.simulated_real THEN r.probability_real
                     ELSE Scale - r.probability_real
        IN  /\ t.closing = " This is an educational simulation -- for a definitive determination consult bank note experts or use certified bank/forensic equipment."
            /\ t.confidence.percent \in 0..100
            /\ 2 * Abs(t.confidence.percent * Scale - 100 * shown) <= Scale
            /\ t.confidence.label =
                 (IF r.simulated_real THEN " (Simulated confidence: "
                  ELSE " (Simulated confidence that note is fake: ")
            /\ t.confidence.suffix = "%)"

\* a real verdict whose percentage was rounded up from a fraction above one half
C6_Witness ==
    /\ explanation # <<>>
    /\ sim[1].simulated_real
    /\ explanation[1].confidence.percent * Scale > 100 * sim[1].probability_real
    /\ 2 * (explanation[1].confidence.percent * Scale - 100 * sim[1].probability_real)
         < Scale

FeatureLabels ==
    {"Observed features: ", "Minor features not clearly visible: ",
     "Missing or unclear features: "}

\* C7: for an unknown currency/denomination pair the three feature lists are
\* empty and the explanation is still produced: header, confidence and
\* disclaimer, with no sentence about observed or missing features.
C7_UnknownPairStillExplained ==
    (clicked = "none" /\ ~KnownPair(currency_code, denom)) =>
        /\ sim # <<>>
        /\ sim[1].expected_features = <<>>
        /\ sim[1].observed_features = <<>>
        /\ sim[1].missing_features = <<>>
        /\ explanation # <<>>
        /\ explanation[1].header =
             <<"Interpretation for ", CurrencyStr(InitialCatalog, currency_code),
               " -- ", denom, " (simulated):">>
        /\ Range(explanation[1].p) \cap FeatureLabels = {}
        /\ explanation[1].confidence.percent \in 0..100
        /\ explanation[1].closing = Closing

\* the scenario of the claim, with a fake verdict and its suspicious signs
C7_Witness ==
    /\ currency_code = "XYZ"
    /\ denom = "5"
    /\ explanation # <<>>
    /\ ~sim[1].simulated_real
    /\ "Suspicious signs: " \in Range(explanation[1].p)

\* C8: the catalog is never changed: after any sequence of verification runs, QR
\* checks and Database views it equals the catalog the process started with.
C8_CatalogNeverMutated == CURRENCY_DB = InitialCatalog

\* results shown for a note whose expected list the loop split in two
C8_Witness ==
    /\ outcome = "Results"
    /\ sim[1].expected_features = CURRENCY_DB.at[currency_code].at.denominations.at[denom]
    /\ sim[1].missing_features # <<>>
    /\ sim[1].observed_features # <<>>

\* C9: the verdict is real exactly when the verdict draw is below
\* probability_real, not when probability_real exceeds 0.5; so whenever an
\* analysis is about to run, both verdicts can come out of it, for every noise
\* draw.
C9_VerdictFromSecondDraw ==
    /\ \A i \in 1..Len(sim) :
         sim[i].simulated_real <=> (draws[i].verdict < sim[i].probability_real)
    /\ (clicked = "run_btn" /\ img_file # <<>>) =>
         \A noise \in NoiseDraws :
            \E low, high \in VerdictDraws :
               /\ IsRealSim(low, ProbReal(image_stats_summary(img_file[1].image), noise))
               /\ ~IsRealSim(high, ProbReal(image_stats_summary(img_file[1].image), noise))

\* a fake verdict at a probability above one half
C9_Witness ==
    /\ sim # <<>>
    /\ 2 * sim[1].probability_real > Scale
    /\ ~sim[1].simulated_real

\* C10: probability_real is clamp(0.55 + (score - 1.0) * 0.15 + u, 0.02, 0.98)
\* with score = brightness / 128 + edge_mean / 50 and u the noise draw; contrast
\* plays no part.  For brightness 128 and edge_mean 25 with ("INR", "50") the
\* score is 1.5, probability_real is 0.625 + u, within 0.625 +- 0.12, and
\* expected_features is the declared list of INR 50.
C10_ProbabilityFormula ==
    \A i \in 1..Len(sim) :
        LET r == sim[i]
            b == r.stats.brightness
            e == r.stats.edge_mean
            u == draws[i].noise
            \* 12800 * score, score = b / 128 + e / 50 and 12800 = lcm(128, 50) * 4
            score12800 == 100 * b + 256 * e
            \* Scale * (0.55 + (score - 1.0) * 0.15 + u), Scale = 25 * 12800
            sum == (55 * Scale) \div 100 + ((score12800 - 12800) * 15) \div 4 + u
        IN  /\ r.probability_real
                 = Min(Max(sum, (2 * Scale) \div 100), (98 * Scale) \div 100)
            /\ (b = 128 /\ e = 25 /\ currency_code = "INR" /\ denom = "50") =>
                 /\ 2 * score12800 = 3 * 12800
                 /\ 1000 * r.probability_real = 625 * Scale + 1000 * u
                 /\ 1000 * r.probability_real >= (625 - 120) * Scale
                 /\ 1000 * r.probability_real <= (625 + 120) * Scale
                 /\ r.expected_features =
                      <<"Watermark", "Security thread", "Optically variable ink", "Microprint">>

\* the scenario with another contrast and the largest noise draw
C10_Witness ==
    /\ sim # <<>>
    /\ sim[1].stats = [brightness |-> 128, contrast |-> 70, edge_mean |-> 25]
    /\ currency_code = "INR"
    /\ denom = "50"
    /\ 1000 * sim[1].probability_real = (625 + 120) * Scale

====
